---- MODULE Spec2Model ----
(***************************************************************************)
(* Model of src/pages/post/[slug].tsx: the static path enumerator          *)
(* (getStaticPaths), the prop builder (getStaticProps, one action per      *)
(* continuation between its awaits) and the page component (Post).         *)
(* The content service is the state `docs`; its query/getByUID answers are *)
(* computed from `docs` by the operators below.                            *)
(***************************************************************************)
EXTENDS Integers, Sequences, FiniteSets, TLC

VARIABLES
    docs,             \* documents held by the content service
    staticPaths,      \* result of getStaticPaths, Unset before it ran
    pc,               \* position of the current getStaticProps call
    params,           \* context.params of the current call
    preview,          \* context.preview of the current call
    response,         \* getStaticProps: const response
    previousResponse, \* getStaticProps: const previousResponse
    nextResponse,     \* getStaticProps: const nextResponse
    inflight,         \* the fetch awaited right now, or NoFetch
    fetches,          \* fetches issued by the current call, in issue order
    outcome,          \* what the current getStaticProps call produced
    isFallback,       \* router.isFallback for the requested route
    rendered          \* what the Post component returned last

vars == <<docs, staticPaths, pc, params, preview, response, previousResponse,
          nextResponse, inflight, fetches, outcome, isFallback, rendered>>

----------------------------------------------------------------------------
(* Bounds *)

MaxDocs == 3
MaxBlocks == 2
MaxBody == 1

(* Program constants *)

wordsPerMinute == 200
pageSize == 100
neighborPageSize == 1
revalidate == 60 * 5

----------------------------------------------------------------------------
(* Values *)

Null == [null |-> TRUE]
Undefined == [undefined |-> TRUE]
Unset == [kind |-> "unset"]
NoFetch == [call |-> "none"]

Str(tag, n) == [s |-> tag, n |-> n]

Ids == 1 .. MaxDocs
Dates == 1 .. MaxDocs
Uid(i) == Str("uid", i)
Title(i) == Str("title", i)
Slugs == {Uid(i) : i \in 0 .. MaxDocs}

PreviewRef == Str("ref", 1)

(* A text is a sequence of naturals: 0 is one space character, n > 0 is a  *)
(* run of n words separated by single spaces (n - 1 spaces inside it).     *)
(* No two positive entries are adjacent.                                    *)
EmptyText == << >>
OneWord == <<1>>
DoubleSpaced == <<1, 0, 0, 1>>
Words199 == <<199>>
Words200 == <<200>>
Texts == {EmptyText, OneWord, DoubleSpaced, Words199, Words200}

RECURSIVE SpaceCount(_)
SpaceCount(t) ==
    IF t = << >> THEN 0
    ELSE (IF Head(t) = 0 THEN 1 ELSE Head(t) - 1) + SpaceCount(Tail(t))

(* String.prototype.split(' ').length: one piece more than there are spaces *)
SplitLength(t) == SpaceCount(t) + 1

----------------------------------------------------------------------------
(* The content service (Prismic client) as this file uses it *)

PostsType == "posts"
OrderDesc == "[document.first_publication_date desc]"
OrderAsc == "[document.first_publication_date]"
OrderDefault == "default"

Shapes == {"full", "noBanner", "noSubtitle", "noAuthor"}

DefaultContent == <<[heading |-> OneWord, body |-> <<[text |-> DoubleSpaced]>>]>>

Doc(i, type, date, shape, content) ==
    [id |-> i,
     uid |-> Uid(i),
     type |-> type,
     first_publication_date |-> date,
     last_publication_date |-> date,
     data |-> [title |-> Title(i),
               subtitle |-> IF shape = "noSubtitle" THEN Undefined ELSE Str("subtitle", i),
               author |-> IF shape = "noAuthor" THEN Undefined ELSE Str("author", i),
               banner |-> IF shape = "noBanner" THEN Undefined
                          ELSE [url |-> Str("url", i)],
               content |-> content]]

(* Every arrangement of the set S as a sequence *)
Perms(S) ==
    {f \in [1 .. Cardinality(S) -> S] :
        \A i, j \in 1 .. Cardinality(S) : i # j => f[i] # f[j]}

(* The result lists the service may build for a predicate                   *)
(* at('document.type', type) under an orderings option: every arrangement   *)
(* of the matching documents that respects the ordering; documents with     *)
(* equal dates, and all documents when no ordering is asked, come in an     *)
(* order the caller does not control.                                       *)
Listings(store, type, orderings) ==
    {l \in Perms({d \in store : d.type = type}) :
        \A i \in 1 .. Len(l) - 1 :
            CASE orderings = OrderDesc ->
                   l[i].first_publication_date >= l[i + 1].first_publication_date
              [] orderings = OrderAsc ->
                   l[i].first_publication_date <= l[i + 1].first_publication_date
              [] OTHER -> TRUE}

(* Position of the document with the given id in a listing, 0 if none *)
IndexOfId(l, id) ==
    IF \E i \in 1 .. Len(l) : l[i].id = id
    THEN CHOOSE i \in 1 .. Len(l) : l[i].id = id
    ELSE 0

(* fetch option: only the named data fields are returned *)
Fetch(d, fields) ==
    [id |-> d.id, uid |-> d.uid, type |-> d.type,
     first_publication_date |-> d.first_publication_date,
     data |-> [f \in fields |-> d.data[f]]]

(* prismic.query over a listing: the documents after the `after` cursor,   *)
(* cut to one page                                                          *)
Query(l, options) ==
    LET start == IF "after" \in DOMAIN options
                 THEN IndexOfId(l, options.after) ELSE 0
        rest == SubSeq(l, start + 1, Len(l))
        page == SubSeq(rest, 1, IF Len(rest) < options.pageSize
                                THEN Len(rest) ELSE options.pageSize)
    IN  [results |-> [i \in 1 .. Len(page) |-> Fetch(page[i], options.fetch)]]

(* prismic.getByUID(type, uid): the document or a falsy value *)
getByUID(store, type, uid) ==
    IF \E d \in store : d.type = type /\ d.uid = uid
    THEN CHOOSE d \in store : d.type = type /\ d.uid = uid
    ELSE Null

----------------------------------------------------------------------------
(* The page component Post *)

Truthy(v) == v # Null /\ v # Undefined /\ v # Unset

RECURSIVE SumSplit(_)
(* body.reduce((acc2, bodyItem) => acc2 + bodyItem.text.split(' ').length, 0) *)
SumSplit(body) ==
    IF body = << >> THEN 0
    ELSE SplitLength(Head(body).text) + SumSplit(Tail(body))

RECURSIVE totalWords(_)
(* content.reduce((acc, item) => acc + heading.split(' ').length + ..., 0); *)
(* Math.round leaves the integer sum as it is                               *)
totalWords(content) ==
    IF content = << >> THEN 0
    ELSE SplitLength(Head(content).heading) + SumSplit(Head(content).body)
         + totalWords(Tail(content))

(* Math.ceil(totalWords / wordsPerMinute) *)
totalMinutes(content) ==
    LET w == totalWords(content)
    IN  IF w % wordsPerMinute = 0 THEN w \div wordsPerMinute
        ELSE (w \div wordsPerMinute) + 1

(* Href with the route misspelt *)
HrefTypo(uid) == <<"/posts/", uid>>

(* the template literal `/post/${uid}` *)
Href(uid) == <<"/post/", uid>>

flexDirection(previousPost) == IF Truthy(previousPost) THEN "row" ELSE "row-reverse"

PreviousLink(previousPost) ==
    IF Truthy(previousPost)
    THEN <<[href |-> Href(previousPost.uid), className |-> "postAnterior",
            text |-> previousPost.data.title, caption |-> "Post anterior"]>>
    ELSE << >>

NextLink(nextPost) ==
    IF Truthy(nextPost)
    THEN <<[href |-> Href(nextPost.uid), className |-> "postPosterior",
            text |-> nextPost.data.title, caption |-> "Proximo post"]>>
    ELSE << >>

(* The props of a page whose getStaticProps has not produced any yet *)
EmptyProps ==
    [post |-> Undefined, previousPost |-> Undefined, nextPost |-> Undefined,
     preview |-> Undefined]

(* Post without the router.isFallback guard *)
PostNoFallbackGuard(props, routerIsFallback) ==
    IF ~Truthy(props.post) THEN [kind |-> "error"]
    ELSE [kind |-> "page",
          title |-> props.post.data.title,
          bannerSrc |-> props.post.data.banner.url,
          author |-> props.post.data.author,
          totalWords |-> totalWords(props.post.data.content),
          totalMinutes |-> totalMinutes(props.post.data.content),
          flexDirection |-> flexDirection(props.previousPost),
          links |-> PreviousLink(props.previousPost) \o NextLink(props.nextPost)]

(* function Post(props), with router.isFallback as routerIsFallback;       *)
(* dereferencing an absent post throws                                      *)
Post(props, routerIsFallback) ==
    IF routerIsFallback THEN [kind |-> "loading"]
    ELSE IF ~Truthy(props.post) THEN [kind |-> "error"]
    ELSE [kind |-> "page",
          title |-> props.post.data.title,
          bannerSrc |-> props.post.data.banner.url,
          author |-> props.post.data.author,
          totalWords |-> totalWords(props.post.data.content),
          totalMinutes |-> totalMinutes(props.post.data.content),
          flexDirection |-> flexDirection(props.previousPost),
          links |-> PreviousLink(props.previousPost) \o NextLink(props.nextPost)]

----------------------------------------------------------------------------
(* getStaticPaths *)

(* the options with the page size of the neighbor queries *)
StaticPathsOptionsOnePage == [fetch |-> {}, pageSize |-> neighborPageSize]

StaticPathsOptions == [fetch |-> {}, pageSize |-> pageSize]

getStaticPathsResult(queryResponse) ==
    [paths |-> [i \in 1 .. Len(queryResponse.results) |->
                   [params |-> [slug |-> queryResponse.results[i].uid]]],
     fallback |-> TRUE]

----------------------------------------------------------------------------
(* getStaticProps *)

(* previewData?.ref ?? null *)
Ref(pv) == IF pv THEN PreviewRef ELSE Null

GetByUIDCall(slug, pv) ==
    [call |-> "getByUID", type |-> PostsType, uid |-> slug,
     options |-> [ref |-> Ref(pv)]]

(* the previous-neighbor query with the ordering of the next-neighbor one *)
PreviousQueryAscending(resp, pv) ==
    [call |-> "query", type |-> PostsType,
     options |-> [fetch |-> {"title"}, after |-> resp.id, orderings |-> OrderAsc,
                  pageSize |-> neighborPageSize, ref |-> Ref(pv)]]

PreviousQuery(resp, pv) ==
    [call |-> "query", type |-> PostsType,
     options |-> [fetch |-> {"title"}, after |-> resp.id, orderings |-> OrderDesc,
                  pageSize |-> neighborPageSize, ref |-> Ref(pv)]]

NextQuery(resp, pv) ==
    [call |-> "query", type |-> PostsType,
     options |-> [fetch |-> {"title"}, after |-> resp.id, orderings |-> OrderAsc,
                  pageSize |-> neighborPageSize, ref |-> Ref(pv)]]

(* the redirect marked permanent *)
RedirectResultPermanent ==
    [kind |-> "redirect", redirect |-> [destination |-> "/", permanent |-> TRUE]]

RedirectResult ==
    [kind |-> "redirect", redirect |-> [destination |-> "/", permanent |-> FALSE]]

(* results.length ? { uid, data: { title } } : null *)
Neighbor(queryResponse) ==
    IF Len(queryResponse.results) # 0
    THEN [uid |-> queryResponse.results[1].uid,
          data |-> [title |-> queryResponse.results[1].data.title]]
    ELSE Null

(* the return statement with the banner access guarded (banner?.url) *)
PropsResultGuarded(resp, prevResp, nextResp, pv) ==
    [kind |-> "props",
     props |->
       [post |->
          [uid |-> resp.uid,
           first_publication_date |-> resp.first_publication_date,
           last_publication_date |-> resp.last_publication_date,
           data |-> [author |-> resp.data.author,
                     title |-> resp.data.title,
                     subtitle |-> resp.data.subtitle,
                     content |-> resp.data.content,
                     banner |-> [url |-> IF resp.data.banner = Undefined THEN Undefined
                                         ELSE resp.data.banner.url]]],
        previousPost |-> Neighbor(prevResp),
        nextPost |-> Neighbor(nextResp),
        preview |-> pv],
     revalidate |-> revalidate]

(* the return statement of getStaticProps; response.data.banner.url throws *)
(* a TypeError when banner is undefined                                     *)
PropsResult(resp, prevResp, nextResp, pv) ==
    IF resp.data.banner = Undefined
    THEN [kind |-> "error", error |-> "TypeError"]
    ELSE [kind |-> "props",
          props |->
            [post |->
               [uid |-> resp.uid,
                first_publication_date |-> resp.first_publication_date,
                last_publication_date |-> resp.last_publication_date,
                data |-> [author |-> resp.data.author,
                          title |-> resp.data.title,
                          subtitle |-> resp.data.subtitle,
                          content |-> resp.data.content,
                          banner |-> [url |-> resp.data.banner.url]]],
             previousPost |-> Neighbor(prevResp),
             nextPost |-> Neighbor(nextResp),
             preview |-> pv],
          revalidate |-> revalidate]

(* if (!response) *)
NotFound(resp) == resp = Null

----------------------------------------------------------------------------
(* Content stores *)

(* Every id holds a document: a post published at one of the dates, or a  *)
(* document of another type. Document 1 takes every shape, the others are  *)
(* complete.                                                                *)
Stores ==
    {{Doc(i, k[i].type, k[i].date, IF i = 1 THEN shape ELSE "full", DefaultContent) :
        i \in Ids} :
      k \in [Ids -> ([type : {PostsType}, date : Dates]
                     \cup {[type |-> "page", date |-> 1]})],
      shape \in Shapes}

Blocks ==
    {[heading |-> h, body |-> b] :
        h \in Texts,
        b \in UNION {[1 .. n -> [text : Texts]] : n \in 0 .. MaxBody}}

Contents == UNION {[1 .. n -> Blocks] : n \in 0 .. MaxBlocks}

InitCall ==
    /\ staticPaths = Unset
    /\ params = Unset
    /\ preview = FALSE
    /\ response = Unset
    /\ previousResponse = Unset
    /\ nextResponse = Unset
    /\ inflight = NoFetch
    /\ fetches = << >>
    /\ outcome = Unset
    /\ isFallback = FALSE
    /\ rendered = Unset

Init ==
    /\ docs \in Stores
    /\ pc = "idle"
    /\ InitCall

InitRead ==
    /\ docs \in {{Doc(1, PostsType, 1, "full", c)} : c \in Contents}
    /\ pc = "idle"
    /\ InitCall

InitPaths ==
    /\ docs \in Stores
    /\ pc = "build"
    /\ InitCall

----------------------------------------------------------------------------
(* Actions *)

(* getStaticPaths, run at build time *)
GetStaticPaths ==
    /\ pc = "build"
    /\ \E l \in Listings(docs, PostsType, OrderDefault) :
          staticPaths' = getStaticPathsResult(Query(l, StaticPathsOptions))
    /\ pc' = "built"
    /\ UNCHANGED <<docs, params, preview, response, previousResponse, nextResponse,
                   inflight, fetches, outcome, isFallback, rendered>>

(* getStaticProps is called for a slug and runs up to its first await;     *)
(* every call starts from fresh locals, so one call per behaviour reaches   *)
(* every state a later call could reach                                     *)
Request(slug, pv, fb) ==
    /\ pc = "idle"
    /\ params' = [slug |-> slug]
    /\ preview' = pv
    /\ isFallback' = fb
    /\ inflight' = GetByUIDCall(slug, pv)
    /\ fetches' = <<GetByUIDCall(slug, pv)>>
    /\ response' = Unset
    /\ previousResponse' = Unset
    /\ nextResponse' = Unset
    /\ outcome' = Unset
    /\ rendered' = Unset
    /\ pc' = "awaitResponse"
    /\ UNCHANGED <<docs, staticPaths>>

(* getByUID answers: redirect, or go on to the first neighbor query *)
RecvResponse ==
    /\ pc = "awaitResponse"
    /\ LET resp == getByUID(docs, inflight.type, inflight.uid)
       IN  /\ response' = resp
           /\ IF NotFound(resp)
              THEN /\ outcome' = RedirectResult
                   /\ inflight' = NoFetch
                   /\ fetches' = fetches
                   /\ pc' = "returned"
              ELSE /\ outcome' = outcome
                   /\ inflight' = PreviousQuery(resp, preview)
                   /\ fetches' = Append(fetches, PreviousQuery(resp, preview))
                   /\ pc' = "awaitPrevious"
    /\ UNCHANGED <<docs, staticPaths, params, preview, previousResponse, nextResponse,
                   isFallback, rendered>>

(* the first neighbor query answers; the second is issued *)
RecvPrevious ==
    /\ pc = "awaitPrevious"
    /\ \E l \in Listings(docs, inflight.type, inflight.options.orderings) :
          previousResponse' = Query(l, inflight.options)
    /\ inflight' = NextQuery(response, preview)
    /\ fetches' = Append(fetches, NextQuery(response, preview))
    /\ pc' = "awaitNext"
    /\ UNCHANGED <<docs, staticPaths, params, preview, response, nextResponse, outcome,
                   isFallback, rendered>>

(* the second neighbor query answers; getStaticProps returns or throws *)
RecvNext ==
    /\ pc = "awaitNext"
    /\ \E l \in Listings(docs, inflight.type, inflight.options.orderings) :
          /\ nextResponse' = Query(l, inflight.options)
          /\ outcome' = PropsResult(response, previousResponse, nextResponse', preview)
    /\ inflight' = NoFetch
    /\ pc' = "returned"
    /\ UNCHANGED <<docs, staticPaths, params, preview, response, previousResponse,
                   fetches, isFallback, rendered>>

(* the page is rendered before its props exist, in the router's fallback state *)
RenderFallback ==
    /\ pc \in {"awaitResponse", "awaitPrevious", "awaitNext"}
    /\ isFallback
    /\ rendered = Unset
    /\ rendered' = Post(EmptyProps, isFallback)
    /\ UNCHANGED <<docs, staticPaths, pc, params, preview, response, previousResponse,
                   nextResponse, inflight, fetches, outcome, isFallback>>

(* the page is rendered with the props getStaticProps returned *)
RenderProps ==
    /\ pc = "returned"
    /\ outcome.kind = "props"
    /\ rendered.kind # "page"
    /\ isFallback' = FALSE
    /\ rendered' = Post(outcome.props, FALSE)
    /\ UNCHANGED <<docs, staticPaths, pc, params, preview, response, previousResponse,
                   nextResponse, inflight, fetches, outcome>>

Next ==
    \/ \E slug \in Slugs, pv \in BOOLEAN, fb \in BOOLEAN : Request(slug, pv, fb)
    \/ RecvResponse
    \/ RecvPrevious
    \/ RecvNext
    \/ RenderFallback
    \/ RenderProps

NextPaths == GetStaticPaths

Spec == Init /\ [][Next]_vars

SpecRead == InitRead /\ [][Next]_vars

SpecPaths == InitPaths /\ [][NextPaths]_vars

----------------------------------------------------------------------------
(* Properties *)

Posts == {d \in docs : d.type = PostsType}
Found == pc = "returned" /\ response # Null /\ response # Unset
Earlier == {d \in Posts : d.first_publication_date < response.first_publication_date}
Later == {d \in Posts : d.first_publication_date > response.first_publication_date}
Reduced(d) == [uid |-> d.uid, data |-> [title |-> d.data.title]]
NearestEarlier == {d \in Earlier : \A e \in Earlier :
                      e.first_publication_date <= d.first_publication_date}
NearestLater == {d \in Later : \A e \in Later :
                    e.first_publication_date >= d.first_publication_date}

RECURSIVE WordCount(_)
(* the number of words of a text *)
WordCount(t) == IF t = << >> THEN 0 ELSE Head(t) + WordCount(Tail(t))

RECURSIVE BodyWords(_)
BodyWords(body) ==
    IF body = << >> THEN 0 ELSE WordCount(Head(body).text) + BodyWords(Tail(body))

RECURSIVE ContentWords(_)
(* the number of whitespace-separated words of all headings and body texts *)
ContentWords(content) ==
    IF content = << >> THEN 0
    ELSE WordCount(Head(content).heading) + BodyWords(Head(content).body)
         + ContentWords(Tail(content))

CeilDiv(a, b) == IF a % b = 0 THEN a \div b ELSE (a \div b) + 1

(* C1: when no document of type "posts" has the requested slug as its uid, *)
(* getStaticProps returns a redirect to "/" with permanent = false and no  *)
(* props.                                                                   *)
C1_NotFoundRedirects ==
    (pc = "returned" /\ ~\E d \in docs : d.type = PostsType /\ d.uid = params.slug)
    => /\ outcome.kind = "redirect"
       /\ outcome.redirect.destination = "/"
       /\ outcome.redirect.permanent = FALSE
       /\ "props" \notin DOMAIN outcome

(* a slug that is the uid of a document of another type was requested and  *)
(* the call returned a redirect                                             *)
C1_Witness ==
    /\ pc = "returned"
    /\ outcome.kind = "redirect"
    /\ \E d \in docs : d.type # PostsType /\ d.uid = params.slug

(* C2: for a found document, previousPost is the nearest earlier-published *)
(* post reduced to uid and title and is null exactly when there is none,   *)
(* and nextPost is the nearest later-published post, null exactly when     *)
(* there is none.                                                           *)
C2_NeighborsAreNearestByDate ==
    (Found /\ outcome.kind = "props")
    => /\ IF Earlier = {} THEN outcome.props.previousPost = Null
          ELSE \E d \in NearestEarlier : outcome.props.previousPost = Reduced(d)
       /\ IF Later = {} THEN outcome.props.nextPost = Null
          ELSE \E d \in NearestLater : outcome.props.nextPost = Reduced(d)

(* C3: the displayed reading time of a rendered post whose content blocks  *)
(* total W words is the ceiling of W / 200.                                 *)
C3_MinutesAreCeilingOfWords ==
    rendered.kind = "page"
    => rendered.totalMinutes
         = CeilDiv(ContentWords(outcome.props.post.data.content), wordsPerMinute)

(* C4: a document with no earlier-published post gets previousPost = null  *)
(* and a navigation row in row-reverse; a present previousPost gives row.  *)
C4_NoEarlierMeansReversedRow ==
    /\ (Found /\ outcome.kind = "props" /\ Earlier = {})
          => outcome.props.previousPost = Null
    /\ (Found /\ rendered.kind = "page")
          => /\ Earlier = {} => rendered.flexDirection = "row-reverse"
             /\ outcome.props.previousPost # Null => rendered.flexDirection = "row"

(* C5: the page has a previous-post link iff previousPost is present and a *)
(* next-post link iff nextPost is present; each link points to /post/<uid> *)
(* of its own neighbor; with both neighbors there are exactly two links.   *)
C5_LinksMatchNeighbors ==
    rendered.kind = "page"
    => LET p == outcome.props
           prevLinks == {i \in DOMAIN rendered.links :
                            rendered.links[i].caption = "Post anterior"}
           nextLinks == {i \in DOMAIN rendered.links :
                            rendered.links[i].caption = "Proximo post"}
       IN  /\ DOMAIN rendered.links = prevLinks \cup nextLinks
           /\ Cardinality(prevLinks) = (IF p.previousPost # Null THEN 1 ELSE 0)
           /\ Cardinality(nextLinks) = (IF p.nextPost # Null THEN 1 ELSE 0)
           /\ \A i \in prevLinks : rendered.links[i].href = <<"/post/", p.previousPost.uid>>
           /\ \A i \in nextLinks : rendered.links[i].href = <<"/post/", p.nextPost.uid>>
           /\ (p.previousPost # Null /\ p.nextPost # Null) => Len(rendered.links) = 2

(* a page rendered for a post with an earlier and a later neighbor that    *)
(* are different documents                                                  *)
C5_Witness ==
    /\ rendered.kind = "page"
    /\ outcome.props.previousPost # Null
    /\ outcome.props.nextPost # Null
    /\ outcome.props.previousPost.uid # outcome.props.nextPost.uid
    /\ Len(rendered.links) = 2

(* C6: with K <= 100 documents of type "posts", getStaticPaths returns     *)
(* exactly K paths, one per document with params.slug its uid, and         *)
(* fallback = true.                                                         *)
C6_OnePathPerPost ==
    (pc = "built" /\ Cardinality(Posts) <= 100)
    => /\ Len(staticPaths.paths) = Cardinality(Posts)
       /\ {staticPaths.paths[i].params.slug : i \in DOMAIN staticPaths.paths}
            = {d.uid : d \in Posts}
       /\ \A i \in DOMAIN staticPaths.paths :
             DOMAIN staticPaths.paths[i] = {"params"}
             /\ DOMAIN staticPaths.paths[i].params = {"slug"}
       /\ staticPaths.fallback = TRUE

(* paths were enumerated for a store with several posts and a document of  *)
(* another type                                                             *)
C6_Witness ==
    /\ pc = "built"
    /\ Cardinality(Posts) >= 2
    /\ Posts # docs
    /\ Len(staticPaths.paths) = Cardinality(Posts)

(* C7: everything getStaticProps returns is a redirect without props or a  *)
(* props bundle with a post, and the component never completes a page, nor *)
(* fails, on an absent post.                                                *)
C7_PostNeverAbsent ==
    /\ (pc = "returned" /\ outcome.kind # "error")
          => \/ outcome.kind = "redirect" /\ "props" \notin DOMAIN outcome
             \/ outcome.kind = "props" /\ Truthy(outcome.props.post)
    /\ rendered.kind = "page" => (outcome.kind = "props" /\ Truthy(outcome.props.post))
    /\ rendered.kind # "error"

(* the component ran in the fallback state, before any props existed, and  *)
(* the call then ended in a redirect                                        *)
C7_Witness ==
    /\ pc = "returned"
    /\ outcome.kind = "redirect"
    /\ rendered.kind = "loading"

(* C8: the word total used for the reading time is the number of           *)
(* whitespace-separated words of all headings and body texts: an empty     *)
(* field counts 0 and consecutive spaces add nothing.                       *)
C8_TotalIsWordCount ==
    rendered.kind = "page"
    => rendered.totalWords = ContentWords(outcome.props.post.data.content)

(* C9: the fetches of one call are issued in the order getByUID, previous  *)
(* query, next query, each only after the one before has answered, and a   *)
(* call whose document is not found issues no query.                        *)
C9_FetchesSequential ==
    /\ Len(fetches) <= 3
    /\ Len(fetches) >= 1 => fetches[1].call = "getByUID"
    /\ Len(fetches) >= 2 =>
          /\ fetches[2].call = "query"
          /\ fetches[2].options.orderings = OrderDesc
          /\ response # Unset /\ response # Null
    /\ Len(fetches) >= 3 =>
          /\ fetches[3].call = "query"
          /\ fetches[3].options.orderings = OrderAsc
          /\ previousResponse # Unset
    /\ inflight # NoFetch =>
          /\ inflight = fetches[Len(fetches)]
          /\ Len(fetches) = 1 => response = Unset
          /\ Len(fetches) = 2 => previousResponse = Unset
          /\ Len(fetches) = 3 => nextResponse = Unset
    /\ (pc = "returned" /\ response = Null) => Len(fetches) = 1
    /\ (pc = "returned" /\ response # Null) => Len(fetches) = 3

(* a call for a found document finished after all three fetches *)
C9_Witness ==
    /\ pc = "returned"
    /\ Len(fetches) = 3
    /\ inflight = NoFetch
    /\ nextResponse # Unset

(* C10: a found document without banner makes getStaticProps fail with an  *)
(* error, yielding neither props nor a redirect; a found document lacking  *)
(* only subtitle or author yields props with those fields passed through.  *)
C10_BannerAbsentFails ==
    Found
    => /\ response.data.banner = Undefined
            => (outcome.kind = "error" /\ DOMAIN outcome \cap {"props", "redirect"} = {})
       /\ response.data.banner # Undefined
            => /\ outcome.kind = "props"
               /\ outcome.props.post.data.subtitle = response.data.subtitle
               /\ outcome.props.post.data.author = response.data.author

(* a found document without banner made the call fail *)
C10_Witness ==
    /\ Found
    /\ response.data.banner = Undefined
    /\ outcome.kind = "error"

====
